---- MODULE Spec2Model ----
(***************************************************************************)
(* A model of qsv's `frequency` command (src/src/cmd/frequency.rs): the    *)
(* aggregation engine (sequential_ftables / parallel_ftables / ftables)    *)
(* and the post-processing policy (process_frequencies / counts /          *)
(* format_percentage).                                                     *)
(*                                                                         *)
(* Conventions.  A byte string (Vec<u8>, &[u8]) is a sequence of bytes; a  *)
(* byte is written as a one-character string.  A frequency table           *)
(* (Frequencies<Vec<u8>>) is a function from the byte strings seen so far  *)
(* to their counters.  Vectors are 1-based here where the code is 0-based: *)
(* column and selection positions are shifted by one throughout, so the    *)
(* code's `unique_headers_vec.contains(&i)` keeps its meaning.  A          *)
(* percentage (f64) is kept as the exact rational num/den.                 *)
(***************************************************************************)
EXTENDS Integers, Sequences, FiniteSets, TLC

VARIABLES
    args,                \* Args: the command-line flags
    rows,                \* the data rows of the input file
    indexed,             \* rconfig.indexed(): does the input have an index
    cache,               \* what get_stats_records returns (the stats cache)
    UNIQUE_COLUMNS_VEC,  \* OnceLock<Vec<usize>>: None until sel_headers
    FREQ_ROW_COUNT,      \* OnceLock<u64>: None until get_unique_headers
    sel,                 \* the Selection sel_headers resolved
    pc,                  \* where `run` is
    nchunks,             \* parallel_ftables: number of chunks (0 if sequential)
    wstate,              \* parallel_ftables: each worker closure's position
    chan,                \* the bounded crossbeam channel (results in flight)
    merged,              \* merge_all's accumulator over recv.iter()
    nmerged,             \* how many worker results merge_all has folded in
    tables,              \* the FTables `run` got back
    col,                 \* run's loop index over head_ftables
    out,                 \* the ProcessedFrequency entries written, per column
    wtr,                 \* the output sink: empty until run writes to it
    sargs,               \* split: the command line of `qsv split`
    spc,                 \* split: where its `run` is
    si,                  \* split: sequential_split's record counter i
    swtr,                \* split: start index of sequential_split's open writer
    sworker,             \* split: each parallel_split closure's position
    outdir,              \* split: the chunk files of <outdir>, by start index
    sfilter,             \* split: exit status of the filter command run for a chunk
    sleft,               \* split: split_by_kb_size's chunk_size_bytes_left
    sbytes               \* split: serialized length of the header row and of each record

vars == <<args, rows, indexed, cache, UNIQUE_COLUMNS_VEC, FREQ_ROW_COUNT, sel,
          pc, nchunks, wstate, chan, merged, nmerged, tables, col, out, wtr,
          sargs, spc, si, swtr, sworker, outdir, sfilter, sleft, sbytes>>

\* the state of `qsv split`, which `qsv frequency` leaves alone
split_vars == <<sargs, spc, si, swtr, sworker, outdir, sfilter, sleft, sbytes>>

\* the state of `qsv frequency` other than its input, which `qsv split`
\* leaves alone
frequency_vars == <<args, cache, UNIQUE_COLUMNS_VEC, FREQ_ROW_COUNT, sel, pc,
                    nchunks, wstate, chan, merged, nmerged, tables, col, out, wtr>>

-----------------------------------------------------------------------------
(* Bounds of the model and program constants *)

\* the header row of the input file, and its number of columns
Headers == <<"id", "color">>
NCols == Len(Headers)
\* largest number of data rows of an input
MaxRows == 3
\* largest --jobs value
MaxJobs == 3
\* largest counter of a table drawn directly for post-processing
MaxCount == 2
\* largest |--limit| and --unq-limit drawn for post-processing
MaxLimit == 2
\* largest --lmt-threshold drawn for post-processing
MaxThreshold == 2

\* USAGE defaults
DefaultLimit == 10
DefaultUnqLimit == 10
DefaultLmtThreshold == 0
DefaultPctDecPlaces == -5

NULL_VAL == <<"(", "N", "U", "L", "L", ")">>
EMPTY_BYTE_VEC == <<>>
\* --other-text "<NONE>", kept as one symbol
OtherDisabled == <<"<NONE>">>

-----------------------------------------------------------------------------
(* Generic helpers *)

\* Option<T>: None, or Some(x) holding x
None == <<>>
Some(x) == <<x>>
Unwrap(o) == o[1]

Min(a, b) == IF a <= b THEN a ELSE b
Max(a, b) == IF a >= b THEN a ELSE b
Abs(x) == IF x < 0 THEN -x ELSE x

RECURSIVE SumSet(_, _)
\* sum of f[x] over the set S
SumSet(f, S) ==
    IF S = {} THEN 0
    ELSE LET x == CHOOSE y \in S : TRUE IN f[x] + SumSet(f, S \ {x})

\* Vec::truncate(n)
Truncate(s, n) == IF n >= Len(s) THEN s ELSE SubSeq(s, 1, n)

\* Vec::contains
Contains(s, x) == \E k \in DOMAIN s : s[k] = x

-----------------------------------------------------------------------------
(* Byte strings and the value normalization of ftables *)

\* u8::is_ascii_whitespace: space, tab, LF, form feed, CR
AsciiWhitespace == {" ", "\t", "\n", "\f", "\r"}

\* char::is_whitespace as used by str::trim: the above plus, among others,
\* the vertical tab, written "VT"
UnicodeWhitespace == AsciiWhitespace \cup {"VT"}

\* a byte that is not valid UTF-8 on its own is written "xFF"
is_utf8(bytes) == \A k \in DOMAIN bytes : bytes[k] # "xFF"

RECURSIVE ScanForward(_, _, _, _)
\* the `while start < end` loop of trim_bs_whitespace / str::trim
ScanForward(bytes, start, end, ws) ==
    IF start < end /\ bytes[start + 1] \in ws
    THEN ScanForward(bytes, start + 1, end, ws)
    ELSE start

RECURSIVE ScanBackward(_, _, _, _)
\* the `while end > start` loop of trim_bs_whitespace / str::trim
ScanBackward(bytes, start, end, ws) ==
    IF end > start /\ bytes[end] \in ws
    THEN ScanBackward(bytes, start, end - 1, ws)
    ELSE end

\* trim_bs_whitespace with each loop stopping after one byte
trim_bs_whitespace_OneByte(bytes) ==
    LET start == IF bytes # <<>> /\ bytes[1] \in AsciiWhitespace THEN 1 ELSE 0
        end == IF Len(bytes) > start /\ bytes[Len(bytes)] \in AsciiWhitespace
               THEN Len(bytes) - 1 ELSE Len(bytes)
    IN  SubSeq(bytes, start + 1, end)

trim_bs_whitespace(bytes) ==
    LET start == ScanForward(bytes, 0, Len(bytes), AsciiWhitespace)
        end == ScanBackward(bytes, start, Len(bytes), AsciiWhitespace)
    IN  SubSeq(bytes, start + 1, end)

\* str::trim
str_trim(s) ==
    LET start == ScanForward(s, 0, Len(s), UnicodeWhitespace)
        end == ScanBackward(s, start, Len(s), UnicodeWhitespace)
    IN  SubSeq(s, start + 1, end)

\* util::to_lowercase_into over the bytes the model uses
to_lowercase(s) ==
    [k \in DOMAIN s |->
        CASE s[k] = "A" -> "a"
          [] s[k] = "B" -> "b"
          [] s[k] = "O" -> "o"
          [] s[k] = "X" -> "x"
          [] OTHER -> s[k]]

\* the closure ftables pre-computes from --ignore-case and --no-trim
process_field(flag_ignore_case, flag_no_trim, field) ==
    IF flag_ignore_case
    THEN IF flag_no_trim
         THEN IF is_utf8(field) THEN to_lowercase(field) ELSE field
         ELSE IF is_utf8(field) THEN to_lowercase(str_trim(field))
              ELSE trim_bs_whitespace(field)
    ELSE IF flag_no_trim THEN field
         ELSE trim_bs_whitespace(field)

-----------------------------------------------------------------------------
(* Frequencies<Vec<u8>> *)

\* Frequencies::with_capacity: the empty table
EmptyTable == <<>>

\* Frequencies::add: count one more occurrence of v
FreqAdd(ft, v) ==
    IF v \in DOMAIN ft THEN [ft EXCEPT ![v] = @ + 1]
    ELSE [k \in DOMAIN ft \cup {v} |-> IF k = v THEN 1 ELSE ft[k]]

\* Frequencies::merge (Commute): sum the counters of equal values
FreqMerge(f1, f2) ==
    [k \in DOMAIN f1 \cup DOMAIN f2 |->
        (IF k \in DOMAIN f1 THEN f1[k] ELSE 0)
        + (IF k \in DOMAIN f2 THEN f2[k] ELSE 0)]

\* Commute for Vec<T>: merge column-wise
TablesMerge(t1, t2) ==
    [k \in DOMAIN t1 |-> IF k \in DOMAIN t2 THEN FreqMerge(t1[k], t2[k]) ELSE t1[k]]

\* the total of a table's counters (par_frequent's total_count)
TotalCount(ft) == SumSet(ft, DOMAIN ft)

\* Frequencies::len: the number of distinct values
FreqLen(ft) == Cardinality(DOMAIN ft)

-----------------------------------------------------------------------------
(* The input, the stats cache and the selection *)

\* the rows an input file is made of: column 1 holds "a", "a " (folded
\* into "a" by trimming) or "b"; column 2 holds "x" or is empty (a NULL)
RowSet ==
    { << <<"a">>, <<"x">> >>,
      << <<"a", " ">>, <<>> >>,
      << <<"b">>, <<"x">> >> }

RECURSIVE SeqsUpTo(_, _)
\* all sequences over S of length <= n
SeqsUpTo(S, n) ==
    IF n = 0 THEN {<<>>}
    ELSE LET shorter == SeqsUpTo(S, n - 1)
         IN  shorter \cup {Append(s, x) : s \in {t \in shorter : Len(t) = n - 1}, x \in S}

\* --select: every non-empty selection without repetition of the columns
Selections ==
    {s \in SeqsUpTo(1..NCols, NCols) :
        Len(s) >= 1 /\ \A j, k \in DOMAIN s : j # k => s[j] # s[k]}

\* a --select naming a column the input does not have
InvalidSelections == {<<NCols + 1>>}

\* get_stats_records without a stats cache: no fields, no records
NoCache == [nfields |-> 0, card |-> <<>>, rowcount |-> 0]

\* the stats cache `qsv stats` leaves for the input rs: the number of fields,
\* per column the number of distinct values (StatsData.cardinality), and
\* qsv__rowcount
StatsCache(rs) ==
    [nfields |-> NCols,
     card |-> [c \in 1..NCols |-> Cardinality({rs[k][c] : k \in DOMAIN rs})],
     rowcount |-> Len(rs)]

\* a stats cache whose records do not match the fields of the input rs: the
\* record of the last column is missing (d = -1) or a record of a column
\* the input does not have follows (d = 1)
MismatchedCache(rs, d) ==
    LET c == StatsCache(rs)
    IN  [c EXCEPT !.card = IF d < 0 THEN SubSeq(c.card, 1, NCols - 1)
                           ELSE Append(c.card, Len(rs))]

\* variant of cache_unusable: only missing records are detected
cache_unusable_MissingOnly(c) == c.nfields = 0 \/ Len(c.card) < c.nfields

\* "the stats cache does not exist or the number of fields & stats records
\* do not match"
cache_unusable(c) == c.nfields = 0 \/ Len(c.card) # c.nfields

\* get_unique_headers: the columns whose cached cardinality is the row count;
\* empty when there is no usable cache
get_unique_headers(c) ==
    IF cache_unusable(c) THEN <<>>
    ELSE SelectSeq([i \in 1..NCols |-> i], LAMBDA i : c.card[i] = c.rowcount)

\* FREQ_ROW_COUNT after get_unique_headers: set only with a usable cache
row_count_after(c) == IF cache_unusable(c) THEN None ELSE Some(c.rowcount)

\* FREQ_ROW_COUNT.get().unwrap_or(&0)
unwrap_or_0(o) == IF o = None THEN 0 ELSE Unwrap(o)

-----------------------------------------------------------------------------
(* ftables: one pass over the rows of an iterator *)

\* all_unique_flag_vec: is selected position i in UNIQUE_COLUMNS_VEC
all_unique_flag(unique_headers_vec, i) == Contains(unique_headers_vec, i)

\* CountRow with the --no-nulls test left out: an empty field is always
\* counted as a NULL
CountRow_NullsAlwaysCounted(a, unique_headers_vec, s, freq_tables, row) ==
    [i \in DOMAIN freq_tables |->
        LET field == row[s[i]]
        IN  IF all_unique_flag(unique_headers_vec, i) THEN freq_tables[i]
            ELSE IF field # <<>>
                 THEN FreqAdd(freq_tables[i],
                              process_field(a.flag_ignore_case, a.flag_no_trim, field))
            ELSE FreqAdd(freq_tables[i], EMPTY_BYTE_VEC)]

\* the body of `for row in it`: count the row's selected fields
CountRow(a, unique_headers_vec, s, freq_tables, row) ==
    [i \in DOMAIN freq_tables |->
        LET field == row[s[i]]
        IN  IF all_unique_flag(unique_headers_vec, i) THEN freq_tables[i]
            ELSE IF field # <<>>
                 THEN FreqAdd(freq_tables[i],
                              process_field(a.flag_ignore_case, a.flag_no_trim, field))
            ELSE IF ~a.flag_no_nulls
                 THEN FreqAdd(freq_tables[i], EMPTY_BYTE_VEC)
            ELSE freq_tables[i]]

RECURSIVE CountRows(_, _, _, _, _)
CountRows(a, unique_headers_vec, s, freq_tables, it) ==
    IF it = <<>> THEN freq_tables
    ELSE CountRows(a, unique_headers_vec, s,
                   CountRow(a, unique_headers_vec, s, freq_tables, Head(it)),
                   Tail(it))

\* ftables(sel, it, nchunks); nchunks only sizes the tables' capacity
ftables(a, unique_headers_vec, s, it) ==
    CountRows(a, unique_headers_vec, s, [i \in DOMAIN s |-> EmptyTable], it)

-----------------------------------------------------------------------------
(* parallel_ftables: chunking *)

\* util::njobs
njobs(a) == a.flag_jobs

\* util::chunk_size
chunk_size(nitems, jobs) == IF nitems < jobs THEN nitems ELSE nitems \div jobs

\* util::num_of_chunks
num_of_chunks(nitems, size) ==
    IF size = 0 THEN nitems
    ELSE (nitems \div size) + (IF nitems % size # 0 THEN 1 ELSE 0)

\* WorkerRows seeking one row too far
WorkerRows_SeekOffByOne(rs, i, size) ==
    SubSeq(rs, i * size + 2, Min((i + 1) * size, Len(rs)))

\* the rows worker i reads: idx.seek(i * chunk_size), then take(chunk_size)
WorkerRows(rs, i, size) ==
    SubSeq(rs, i * size + 1, Min((i + 1) * size, Len(rs)))

Workers == 0 .. nchunks - 1

\* the closure's sender is dropped: it sent its result or it unwound
SenderDropped(i) == wstate[i] \in {"sent", "panicked"}

-----------------------------------------------------------------------------
(* rust_decimal::Decimal: mantissa m and scale s stand for m / 10^s; its    *)
(* to_string is the mantissa written with s digits after the point         *)

RECURSIVE Pow10(_)
Pow10(n) == IF n = 0 THEN 1 ELSE 10 * Pow10(n - 1)

\* fractional digits Decimal::from_f64 keeps of a percentage (it keeps the
\* 15 significant digits an f64 guarantees; the model keeps fewer)
F64Scale == 6

RECURSIVE Normalize(_)
\* Decimal::normalize: strip trailing zeros
Normalize(d) ==
    IF d.s > 0 /\ d.m % 10 = 0 THEN Normalize([m |-> d.m \div 10, s |-> d.s - 1])
    ELSE d

\* variant of round_dp: rounding away from zero, not to the nearest
round_dp_AwayFromZero(d, dp) ==
    IF d.s <= dp THEN d
    ELSE LET unit == Pow10(d.s - dp)
         IN  [m |-> (d.m + unit - 1) \div unit, s |-> dp]

\* Decimal::round_dp_with_strategy(dp, MidpointAwayFromZero), for d >= 0
round_dp(d, dp) ==
    IF d.s <= dp THEN d
    ELSE LET unit == Pow10(d.s - dp)
         IN  [m |-> (2 * d.m + unit) \div (2 * unit), s |-> dp]

\* Decimal::from_f64 of the percentage num/den (>= 0)
from_f64(pct) ==
    LET unit == Pow10(F64Scale)
    IN  Normalize([m |-> (2 * pct.num * unit + pct.den) \div (2 * pct.den),
                   s |-> F64Scale])

\* d.fract().to_string().len(): "0" or "0." and the s fractional digits
fract_string_len(d) == IF d.s = 0 THEN 1 ELSE d.s + 2

\* variant of format_percentage: without the final rounding to
\* abs_dec_places
format_percentage_NoFinalRound(a, percentage, abs_dec_places) ==
    LET pct_decimal == from_f64(percentage)
        pct_scale ==
            IF a.flag_pct_dec_places < 0
            THEN LET current_scale == pct_decimal.s
                 IN  IF current_scale > abs_dec_places THEN current_scale
                     ELSE abs_dec_places
            ELSE abs_dec_places
    IN  Normalize(round_dp(pct_decimal, pct_scale))

\* format_percentage: the Decimal whose to_string is returned
format_percentage(a, percentage, abs_dec_places) ==
    LET pct_decimal == from_f64(percentage)
        pct_scale ==
            IF a.flag_pct_dec_places < 0
            THEN LET current_scale == pct_decimal.s
                 IN  IF current_scale > abs_dec_places THEN current_scale
                     ELSE abs_dec_places
            ELSE abs_dec_places
        final_pct_decimal == Normalize(round_dp(pct_decimal, pct_scale))
    IN  IF fract_string_len(final_pct_decimal) > abs_dec_places
        THEN Normalize(round_dp(final_pct_decimal, abs_dec_places))
        ELSE final_pct_decimal

-----------------------------------------------------------------------------
(* counts: sorting, limiting, percentages and the Other bucket *)

\* the percentage 100.0
Pct100 == [num |-> 100, den |-> 1]

\* Frequencies::par_frequent(asc): the (value, count) pairs sorted by count,
\* values of equal count in any order (an unstable sort of a hash map)
par_frequent(ftab, asc) ==
    LET n == FreqLen(ftab)
        orders ==
            {o \in [1..n -> DOMAIN ftab] :
                /\ \A j, k \in 1..n : j # k => o[j] # o[k]
                /\ \A k \in 1..(n - 1) :
                     IF asc THEN ftab[o[k]] <= ftab[o[k + 1]]
                     ELSE ftab[o[k]] >= ftab[o[k + 1]]}
    IN  {[k \in 1..n |-> <<o[k], ftab[o[k]]>>] : o \in orders}

\* variant of limits_apply: limits only strictly below the threshold
limits_apply_Strict(a, unique_counts_len) ==
    a.flag_lmt_threshold = 0 \/ a.flag_lmt_threshold > unique_counts_len

\* "check if we need to apply limits"
limits_apply(a, unique_counts_len) ==
    a.flag_lmt_threshold = 0 \/ a.flag_lmt_threshold >= unique_counts_len

\* counts[if asc { len - 1 } else { 0 }] on an empty vector
counts_panics(a, cnts) == limits_apply(a, Len(cnts)) /\ Len(cnts) = 0

\* "see if it has a count of 1, indicating all unique values"
all_unique(a, cnts) == cnts[IF a.flag_asc THEN Len(cnts) ELSE 1][2] = 1

\* should the table be cut to --unq-limit
unique_limited(a, cnts) ==
    /\ all_unique(a, cnts)
    /\ a.flag_limit > 0
    /\ a.flag_unq_limit # Abs(a.flag_limit)
    /\ a.flag_unq_limit > 0

\* variant of apply_limit: the negative limit as a strict floor
apply_limit_StrictFloor(a, cnts, was_unique_limited) ==
    IF a.flag_limit > 0 THEN Truncate(cnts, Abs(a.flag_limit))
    ELSE IF a.flag_limit < 0 /\ ~was_unique_limited
         THEN SelectSeq(cnts, LAMBDA e : e[2] > Abs(a.flag_limit))
    ELSE cnts

\* "check if we need to limit the number of values"
apply_limit(a, cnts, was_unique_limited) ==
    IF a.flag_limit > 0 THEN Truncate(cnts, Abs(a.flag_limit))
    ELSE IF a.flag_limit < 0 /\ ~was_unique_limited
         THEN SelectSeq(cnts, LAMBDA e : e[2] >= Abs(a.flag_limit))
    ELSE cnts

\* the limiting policy of counts as a whole
limit_counts(a, cnts) ==
    IF ~limits_apply(a, Len(cnts)) THEN cnts
    ELSE LET ul == unique_limited(a, cnts)
         IN  apply_limit(a, IF ul THEN Truncate(cnts, a.flag_unq_limit) ELSE cnts, ul)

RECURSIVE SumCounts(_)
\* the sum of the count field of a vector of entries
SumCounts(entries) ==
    IF entries = <<>> THEN 0
    ELSE Head(entries).count + SumCounts(Tail(entries))

\* indicatif::HumanCount of a number below 1000: its decimal digits
DigitChars == <<"0", "1", "2", "3", "4", "5", "6", "7", "8", "9">>

RECURSIVE HumanCount(_)
HumanCount(n) ==
    IF n < 10 THEN <<DigitChars[n + 1]>>
    ELSE Append(HumanCount(n \div 10), DigitChars[(n % 10) + 1])

\* format!("{} (", other_text)
OtherPrefix(other_text) == other_text \o <<" ", "(">>

\* format!("{} ({})", other_text, HumanCount(n))
OtherLabel(other_text, n) == OtherPrefix(other_text) \o HumanCount(n) \o <<")">>

\* the loop turning the retained pairs into (value, count, percentage)
retained_entries(cnts, total_count) ==
    [k \in DOMAIN cnts |->
        [value |-> IF cnts[k][1] = <<>> THEN NULL_VAL ELSE cnts[k][1],
         count |-> cnts[k][2],
         percentage |-> [num |-> cnts[k][2] * 100, den |-> total_count]]]

\* variant of other_entries: the Other entry counts the removed values,
\* not their occurrences
other_entries_CountsRemovedValues(a, unique_counts_len, total_count, counts_final) ==
    LET count_sum == SumCounts(counts_final)
        other_count == total_count - count_sum
    IN  IF other_count > 0 /\ a.flag_other_text # OtherDisabled
        THEN << [value |-> OtherLabel(a.flag_other_text,
                                      unique_counts_len - Len(counts_final)),
                 count |-> unique_counts_len - Len(counts_final),
                 percentage |-> [num |-> 100 * total_count - 100 * count_sum,
                                 den |-> total_count]] >>
        ELSE <<>>

\* the Other bucket counts appends, if any
other_entries(a, unique_counts_len, total_count, counts_final) ==
    LET count_sum == SumCounts(counts_final)
        other_count == total_count - count_sum
    IN  IF other_count > 0 /\ a.flag_other_text # OtherDisabled
        THEN << [value |-> OtherLabel(a.flag_other_text,
                                      unique_counts_len - Len(counts_final)),
                 count |-> other_count,
                 percentage |-> [num |-> 100 * total_count - 100 * count_sum,
                                 den |-> total_count]] >>
        ELSE <<>>

\* counts(ftab), given the vector par_frequent returned; defined when it
\* does not panic
counts(a, ftab, sorted) ==
    LET total_count == TotalCount(ftab)
        counts_final == retained_entries(limit_counts(a, sorted), total_count)
    IN  counts_final \o other_entries(a, Len(sorted), total_count, counts_final)

\* value.starts_with(prefix)
starts_with(value, prefix) ==
    Len(value) >= Len(prefix) /\ SubSeq(value, 1, Len(prefix)) = prefix

\* Vec::rotate_left(1)
rotate_left_1(v) == IF v = <<>> THEN v ELSE Append(Tail(v), Head(v))

\* the rotation process_frequencies applies to what counts returned
place_other(a, counts_to_process) ==
    IF /\ ~a.flag_other_sorted
       /\ counts_to_process # <<>>
       /\ starts_with(counts_to_process[1].value, OtherPrefix(a.flag_other_text))
    THEN rotate_left_1(counts_to_process)
    ELSE counts_to_process

\* variant of all_unique_entry: the negative --limit floor is applied to
\* the all-unique entry
all_unique_entry_Limited(a, abs_dec_places, row_count) ==
    IF a.flag_limit < 0 /\ row_count < Abs(a.flag_limit) THEN <<>>
    ELSE << [value |-> a.flag_all_unique_text,
             count |-> row_count,
             percentage |-> Pct100,
             formatted_percentage |-> format_percentage(a, Pct100, abs_dec_places)] >>

\* the single entry of an all-unique header
all_unique_entry(a, abs_dec_places, row_count) ==
    << [value |-> a.flag_all_unique_text,
        count |-> row_count,
        percentage |-> Pct100,
        formatted_percentage |-> format_percentage(a, Pct100, abs_dec_places)] >>

\* does process_frequencies panic (in counts)
process_frequencies_panics(a, all_unique_header, sorted) ==
    ~all_unique_header /\ counts_panics(a, sorted)

\* process_frequencies: the ProcessedFrequency entries of one column when it
\* does not panic; sorted is the vector par_frequent returns for ftab
process_frequencies(a, all_unique_header, abs_dec_places, row_count, ftab, sorted) ==
    IF all_unique_header THEN all_unique_entry(a, abs_dec_places, row_count)
    ELSE LET counts_to_process == place_other(a, counts(a, ftab, sorted))
         IN  [k \in DOMAIN counts_to_process |->
                [value |-> counts_to_process[k].value,
                 count |-> counts_to_process[k].count,
                 percentage |-> counts_to_process[k].percentage,
                 formatted_percentage |->
                     format_percentage(a, counts_to_process[k].percentage,
                                       abs_dec_places)]]

-----------------------------------------------------------------------------
(* The command line *)

\* "Other" and "<ALL_UNIQUE>", each kept as one symbol
DefaultOtherText == <<"O">>
DefaultAllUniqueText == <<"<ALL_UNIQUE>">>

\* the options' defaults (USAGE)
DefaultArgs ==
    [flag_select |-> [i \in 1..NCols |-> i],
     flag_limit |-> DefaultLimit,
     flag_unq_limit |-> DefaultUnqLimit,
     flag_lmt_threshold |-> DefaultLmtThreshold,
     flag_pct_dec_places |-> DefaultPctDecPlaces,
     flag_other_sorted |-> FALSE,
     flag_other_text |-> DefaultOtherText,
     flag_asc |-> FALSE,
     flag_no_trim |-> FALSE,
     flag_no_nulls |-> FALSE,
     flag_ignore_case |-> FALSE,
     flag_all_unique_text |-> DefaultAllUniqueText,
     flag_json |-> FALSE,
     flag_jobs |-> 1]

\* flag_pct_dec_places.unsigned_abs()
abs_dec_places(a) == Abs(a.flag_pct_dec_places)

-----------------------------------------------------------------------------
(* Aggregation: sequential_ftables and parallel_ftables *)

\* the record run writes first
HeaderRow == <<"field", "value", "count", "percentage">>

\* the document output_json writes: a FrequencyOutput
JsonDocument == <<"input", "description", "rowcount", "fieldcount", "fields">>

\* run once the tables are returned: under --json nothing is written yet,
\* otherwise the writer is created and the header row written
write_header(a, w) == IF a.flag_json THEN w ELSE Append(w, HeaderRow)

\* rconfig.selection(headers): does every selected column exist
selection_valid(s) == \A k \in DOMAIN s : s[k] \in 1..NCols

\* run: `Some(idx) if util::njobs(args.flag_jobs) > 1`
runs_parallel == indexed /\ njobs(args) > 1

\* sel_headers: get_unique_headers sets the OnceLocks, then the selection
\* is resolved
sel_headers ==
    /\ UNIQUE_COLUMNS_VEC' = Some(get_unique_headers(cache))
    /\ FREQ_ROW_COUNT' = row_count_after(cache)
    /\ sel' = IF selection_valid(args.flag_select) THEN args.flag_select ELSE sel

\* variant of SequentialFtables: the writer is created and the header row
\* written before the selection is resolved
SequentialFtables_HeaderFirst ==
    /\ pc = "start"
    /\ ~runs_parallel
    /\ sel_headers
    /\ wtr' = write_header(args, wtr)
    /\ IF selection_valid(args.flag_select)
       THEN /\ tables' = ftables(args, get_unique_headers(cache),
                                 args.flag_select, rows)
            /\ pc' = "tables"
       ELSE /\ pc' = "error"
            /\ UNCHANGED tables
    /\ UNCHANGED <<split_vars, args, rows, indexed, cache, nchunks, wstate, chan, merged,
                   nmerged, col, out>>

\* sequential_ftables, and run up to its first write when it returns Ok;
\* the `?` on sel_headers returns the error of an invalid selection
SequentialFtables ==
    /\ pc = "start"
    /\ ~runs_parallel
    /\ sel_headers
    /\ IF selection_valid(args.flag_select)
       THEN /\ tables' = ftables(args, get_unique_headers(cache),
                                 args.flag_select, rows)
            /\ pc' = "tables"
            /\ wtr' = write_header(args, wtr)
       ELSE /\ pc' = "error"
            /\ UNCHANGED <<tables, wtr>>
    /\ UNCHANGED <<split_vars, args, rows, indexed, cache, nchunks, wstate, chan, merged,
                   nmerged, col, out>>

\* parallel_ftables up to drop(send): the jobs are queued on the pool
ParallelSpawn ==
    /\ pc = "start"
    /\ runs_parallel
    /\ sel_headers
    /\ LET idx_count == Len(rows)
           n == num_of_chunks(idx_count, chunk_size(idx_count, njobs(args)))
       IN  IF ~selection_valid(args.flag_select)
           THEN /\ pc' = "error"
                /\ UNCHANGED <<tables, nchunks, wstate, wtr>>
           ELSE IF idx_count = 0
           THEN /\ tables' = <<>>
                /\ pc' = "tables"
                /\ wtr' = write_header(args, wtr)
                /\ UNCHANGED <<nchunks, wstate>>
           ELSE /\ nchunks' = n
                /\ wstate' = [i \in 0..(n - 1) |-> "queued"]
                /\ pc' = "par"
                /\ UNCHANGED <<tables, wtr>>
    /\ UNCHANGED <<split_vars, args, rows, indexed, cache, chan, merged, nmerged, col, out>>

\* a pool thread picks up job i; the pool has njobs threads
WorkerStart(i) ==
    /\ pc = "par"
    /\ wstate[i] = "queued"
    /\ Cardinality({j \in Workers : wstate[j] = "running"}) < njobs(args)
    /\ wstate' = [wstate EXCEPT ![i] = "running"]
    /\ UNCHANGED <<split_vars, wtr, args, rows, indexed, cache, UNIQUE_COLUMNS_VEC, FREQ_ROW_COUNT,
                   sel, pc, nchunks, chan, merged, nmerged, tables, col, out>>

\* what worker i sends: args.ftables(&sel, it, nchunks) over its chunk
WorkerResult(i) ==
    ftables(args, Unwrap(UNIQUE_COLUMNS_VEC), sel,
            WorkerRows(rows, i, chunk_size(Len(rows), njobs(args))))

\* WorkerSend with the closure looping back to send again
WorkerSend_SendsAgain(i) ==
    /\ pc = "par"
    /\ wstate[i] = "running"
    /\ Len(chan) < nchunks
    /\ chan' = Append(chan, WorkerResult(i))
    /\ UNCHANGED <<split_vars, wtr, args, rows, indexed, cache, UNIQUE_COLUMNS_VEC,
                   FREQ_ROW_COUNT, sel, pc, nchunks, wstate, merged, nmerged, tables,
                   col, out>>

\* send.send(...) on the bounded(nchunks) channel, then the closure ends
WorkerSend(i) ==
    /\ pc = "par"
    /\ wstate[i] = "running"
    /\ Len(chan) < nchunks
    /\ chan' = Append(chan, WorkerResult(i))
    /\ wstate' = [wstate EXCEPT ![i] = "sent"]
    /\ UNCHANGED <<split_vars, wtr, args, rows, indexed, cache, UNIQUE_COLUMNS_VEC, FREQ_ROW_COUNT,
                   sel, pc, nchunks, merged, nmerged, tables, col, out>>

\* one of the closure's unwraps fails (the input cannot be re-opened, the
\* seek fails).  Built with panic=abort the process ends; otherwise the
\* pool thread unwinds, which drops the closure's sender, and the pool
\* replaces the thread.
WorkerPanic(i) ==
    /\ pc = "par"
    /\ wstate[i] = "running"
    /\ \E aborts \in BOOLEAN :
          IF aborts
          THEN pc' = "aborted" /\ UNCHANGED wstate
          ELSE wstate' = [wstate EXCEPT ![i] = "panicked"] /\ UNCHANGED pc
    /\ UNCHANGED <<split_vars, wtr, args, rows, indexed, cache, UNIQUE_COLUMNS_VEC, FREQ_ROW_COUNT,
                   sel, nchunks, chan, merged, nmerged, tables, col, out>>

\* merge_all(recv.iter()): the next result is received and merged
Recv ==
    /\ pc = "par"
    /\ chan # <<>>
    /\ merged' = IF merged = None THEN Some(Head(chan))
                 ELSE Some(TablesMerge(Unwrap(merged), Head(chan)))
    /\ nmerged' = nmerged + 1
    /\ chan' = Tail(chan)
    /\ UNCHANGED <<split_vars, wtr, args, rows, indexed, cache, UNIQUE_COLUMNS_VEC, FREQ_ROW_COUNT,
                   sel, pc, nchunks, wstate, tables, col, out>>

\* ParallelReturn with recv.iter() ending as soon as the channel is empty
ParallelReturn_EmptyChannel ==
    /\ pc = "par"
    /\ chan = <<>>
    /\ IF merged = None
       THEN pc' = "panicked" /\ UNCHANGED <<tables, wtr>>
       ELSE /\ pc' = "tables"
            /\ tables' = Unwrap(merged)
            /\ wtr' = write_header(args, wtr)
    /\ UNCHANGED <<split_vars, args, rows, indexed, cache, UNIQUE_COLUMNS_VEC,
                   FREQ_ROW_COUNT, sel, nchunks, wstate, chan, merged, nmerged, col, out>>

\* recv.iter() ends once the channel is empty and every sender is dropped;
\* merge_all(..).unwrap() panics if nothing was received
ParallelReturn ==
    /\ pc = "par"
    /\ chan = <<>>
    /\ \A i \in Workers : SenderDropped(i)
    /\ IF merged = None
       THEN pc' = "panicked" /\ UNCHANGED <<tables, wtr>>
       ELSE /\ pc' = "tables"
            /\ tables' = Unwrap(merged)
            /\ wtr' = write_header(args, wtr)
    /\ UNCHANGED <<split_vars, args, rows, indexed, cache, UNIQUE_COLUMNS_VEC, FREQ_ROW_COUNT,
                   sel, nchunks, wstate, chan, merged, nmerged, col, out>>

-----------------------------------------------------------------------------
(* run: the CSV output loop over headers.iter().zip(tables) *)

\* head_ftables.len()
NumOutputColumns == Min(Len(sel), Len(tables))

\* one iteration of `for (i, (header, ftab)) in head_ftables.enumerate()`
ProcessColumn ==
    /\ pc = "tables"
    /\ ~args.flag_json
    /\ col <= NumOutputColumns
    /\ LET all_unique_header == Contains(Unwrap(UNIQUE_COLUMNS_VEC), col)
           ftab == tables[col]
       IN  \E sorted \in par_frequent(ftab, args.flag_asc) :
              IF process_frequencies_panics(args, all_unique_header, sorted)
              THEN pc' = "panicked" /\ UNCHANGED <<col, out>>
              ELSE /\ out' = Append(out,
                                process_frequencies(args, all_unique_header,
                                                    abs_dec_places(args),
                                                    unwrap_or_0(FREQ_ROW_COUNT),
                                                    ftab, sorted))
                   /\ col' = col + 1
                   /\ UNCHANGED pc
    /\ UNCHANGED <<split_vars, wtr, args, rows, indexed, cache, UNIQUE_COLUMNS_VEC, FREQ_ROW_COUNT,
                   sel, nchunks, wstate, chan, merged, nmerged, tables>>

RECURSIVE InsertByCount(_, _, _)
\* where a stable sort by count puts e among the sorted entries es
InsertByCount(es, e, asc) ==
    IF es = <<>> THEN <<e>>
    ELSE IF (IF asc THEN Head(es).count <= e.count ELSE Head(es).count >= e.count)
         THEN <<Head(es)>> \o InsertByCount(Tail(es), e, asc)
         ELSE <<e>> \o es

RECURSIVE sort_by_count(_, _)
\* processed_frequencies.sort_by(count), a stable sort
sort_by_count(es, asc) ==
    IF es = <<>> THEN <<>>
    ELSE InsertByCount(sort_by_count(SubSeq(es, 1, Len(es) - 1), asc),
                       es[Len(es)], asc)

\* one iteration of the loop of output_json (run returns it under --json):
\* the entries of the column, sorted by count under --other-sorted
OutputJsonField ==
    /\ pc = "tables"
    /\ args.flag_json
    /\ col <= NumOutputColumns
    /\ LET all_unique_header == Contains(Unwrap(UNIQUE_COLUMNS_VEC), col)
           ftab == tables[col]
       IN  \E sorted \in par_frequent(ftab, args.flag_asc) :
              IF process_frequencies_panics(args, all_unique_header, sorted)
              THEN pc' = "panicked" /\ UNCHANGED <<col, out>>
              ELSE /\ LET processed_frequencies ==
                              process_frequencies(args, all_unique_header,
                                                  abs_dec_places(args),
                                                  unwrap_or_0(FREQ_ROW_COUNT),
                                                  ftab, sorted)
                      IN  out' = Append(out,
                                   IF args.flag_other_sorted
                                   THEN sort_by_count(processed_frequencies,
                                                      args.flag_asc)
                                   ELSE processed_frequencies)
                   /\ col' = col + 1
                   /\ UNCHANGED pc
    /\ UNCHANGED <<split_vars, wtr, args, rows, indexed, cache, UNIQUE_COLUMNS_VEC, FREQ_ROW_COUNT,
                   sel, nchunks, wstate, chan, merged, nmerged, tables>>

\* the rowcount of FrequencyOutput: FREQ_ROW_COUNT, or when that is 0 the sum
\* of the counts of the first field's entries
json_rowcount(rowcount, fields) ==
    IF rowcount = 0
    THEN IF fields = <<>> THEN 0 ELSE SumCounts(fields[1])
    ELSE rowcount

\* the FrequencyOutput that output_json serializes: the keys of the document
\* and the value of its rowcount
FrequencyOutput(rowcount, fields) ==
    [document |-> JsonDocument, rowcount |-> json_rowcount(rowcount, fields)]

\* wtr.flush(), or the writing of the JSON document
Finish ==
    /\ pc = "tables"
    /\ col > NumOutputColumns
    /\ pc' = "done"
    /\ wtr' = IF args.flag_json
              THEN Append(wtr, FrequencyOutput(unwrap_or_0(FREQ_ROW_COUNT), out))
              ELSE wtr
    /\ UNCHANGED <<split_vars, args, rows, indexed, cache, UNIQUE_COLUMNS_VEC, FREQ_ROW_COUNT,
                   sel, nchunks, wstate, chan, merged, nmerged, tables, col, out>>

-----------------------------------------------------------------------------
(* `qsv split`: command line and chunk files *)

\* bounds of the split inputs
MaxSplitRows == 4
MaxSize == 3
MaxChunks == 3

\* USAGE: -s, --size <arg> [default: 500]
DefaultSize == 500

\* `(x as f64).ceil() as usize` of an infinite quotient saturates at
\* usize::MAX; the largest integer of the checker stands for it
USIZE_MAX == 2147483647

\* Args of split, as docopt fills it: --size and --chunks are mutually
\* exclusive, and flag_size keeps its default when --chunks is given
DefaultSplitArgs ==
    [flag_size |-> DefaultSize, flag_chunks |-> None, flag_no_headers |-> FALSE,
     flag_kb_size |-> None, flag_filter |-> FALSE, flag_filter_cleanup |-> FALSE,
     flag_filter_ignore_errors |-> FALSE]

SplitArgs ==
    {[DefaultSplitArgs EXCEPT !.flag_size = s, !.flag_no_headers = nh] :
        s \in 0..MaxSize, nh \in BOOLEAN}
    \cup
    {[DefaultSplitArgs EXCEPT !.flag_chunks = Some(c), !.flag_no_headers = nh] :
        c \in 0..MaxChunks, nh \in BOOLEAN}

\* the header record of the input, as a byte record
HeaderRecord == [c \in 1..NCols |-> <<Headers[c]>>]

\* an input of n pairwise distinct records: record k carries the digits of k
SplitInput(n) == [k \in 1..n |-> <<HumanCount(k), <<"x">>>>]

\* an output directory without chunk files
EmptyDir == <<>>

\* serialized lengths that no operation reads
NoBytes == [header |-> 0, records |-> <<>>]

\* frequency is not running
FrequencyIdle ==
    /\ args = DefaultArgs
    /\ cache = NoCache
    /\ UNIQUE_COLUMNS_VEC = None
    /\ FREQ_ROW_COUNT = None
    /\ sel = <<>>
    /\ pc = "idle"
    /\ nchunks = 0
    /\ wstate = <<>>
    /\ chan = <<>>
    /\ merged = None
    /\ nmerged = 0
    /\ tables = <<>>
    /\ col = 1
    /\ out = <<>>
    /\ wtr = <<>>

\* split is not running
SplitIdle ==
    /\ sargs = DefaultSplitArgs
    /\ spc = "idle"
    /\ si = 0
    /\ swtr = None
    /\ sworker = <<>>
    /\ outdir = EmptyDir
    /\ sfilter = <<>>
    /\ sleft = 0
    /\ sbytes = NoBytes

-----------------------------------------------------------------------------
(* Specification of a whole run, from the command line to the output *)

InitAgg ==
    /\ SplitIdle
    /\ rows \in SeqsUpTo(RowSet, MaxRows)
    /\ indexed \in BOOLEAN
    /\ cache \in {NoCache, StatsCache(rows)}
    /\ args \in {[DefaultArgs EXCEPT !.flag_select = s, !.flag_no_nulls = nn,
                                     !.flag_jobs = j] :
                    s \in Selections \cup InvalidSelections, nn \in BOOLEAN, j \in 1..MaxJobs}
    /\ UNIQUE_COLUMNS_VEC = None
    /\ FREQ_ROW_COUNT = None
    /\ sel = <<>>
    /\ pc = "start"
    /\ nchunks = 0
    /\ wstate = <<>>
    /\ chan = <<>>
    /\ merged = None
    /\ nmerged = 0
    /\ tables = <<>>
    /\ col = 1
    /\ out = <<>>
    /\ wtr = <<>>

NextAgg ==
    \/ SequentialFtables
    \/ ParallelSpawn
    \/ \E i \in Workers : WorkerStart(i)
    \/ \E i \in Workers : WorkerSend(i)
    \/ \E i \in Workers : WorkerPanic(i)
    \/ Recv
    \/ ParallelReturn
    \/ ProcessColumn
    \/ Finish

SpecAgg == InitAgg /\ [][NextAgg]_vars

-----------------------------------------------------------------------------
(* Specification of the post-processing of one column: it starts where the *)
(* aggregation has returned the table of a one-column selection, drawn     *)
(* from a bounded set, under every combination of the limiting options     *)

\* the values of a drawn table: the empty value (a NULL), "a", and a data
\* value that begins with the Other text followed by " ("
PostValues == { <<>>, <<"a">>, <<"O", " ", "(", "x">> }

PostTables == UNION {[D -> 1..MaxCount] : D \in SUBSET PostValues}

\* the --pct-dec-places drawn for a short-circuited column
PctDecPlaces == {DefaultPctDecPlaces, 0, 2}

PostArgs(dps) ==
    {[DefaultArgs EXCEPT !.flag_select = <<1>>,
                         !.flag_limit = l,
                         !.flag_unq_limit = u,
                         !.flag_lmt_threshold = t,
                         !.flag_asc = asc,
                         !.flag_other_text = ot,
                         !.flag_other_sorted = os,
                         !.flag_json = js,
                         !.flag_pct_dec_places = dp] :
        js \in BOOLEAN, l \in (-MaxLimit)..MaxLimit, u \in 0..MaxLimit, t \in 0..MaxThreshold,
        asc \in BOOLEAN, ot \in {DefaultOtherText, OtherDisabled},
        os \in BOOLEAN, dp \in dps}

InitPost ==
    /\ SplitIdle
    /\ \E short_circuited \in BOOLEAN :
          IF short_circuited
          THEN /\ args \in PostArgs(PctDecPlaces)
               /\ UNIQUE_COLUMNS_VEC = Some(<<1>>)
               /\ FREQ_ROW_COUNT \in {Some(n) : n \in 1..MaxCount}
               /\ tables = <<EmptyTable>>
          ELSE /\ args \in PostArgs({DefaultPctDecPlaces})
               /\ UNIQUE_COLUMNS_VEC = Some(<<>>)
               /\ FREQ_ROW_COUNT = None
               /\ tables \in {<<ft>> : ft \in PostTables}
    /\ sel = <<1>>
    /\ pc = "tables"
    /\ col = 1
    /\ out = <<>>
    /\ rows = <<>>
    /\ indexed = FALSE
    /\ cache = NoCache
    /\ nchunks = 0
    /\ wstate = <<>>
    /\ chan = <<>>
    /\ merged = None
    /\ nmerged = 0
    /\ wtr = write_header(args, <<>>)

NextPost ==
    \/ ProcessColumn
    \/ OutputJsonField
    \/ Finish

SpecPost == InitPost /\ [][NextPost]_vars

-----------------------------------------------------------------------------
(* Properties of the aggregation (checked under SpecAgg) *)

\* the aggregation has returned its tables to run
TablesReturned == pc \in {"tables", "done"}

\* every worker closure ran to its end and sent its result
AllWorkersSent == \A i \in Workers : wstate[i] = "sent"

\* the tables one sequential pass over all rows builds
SequentialTables == ftables(args, Unwrap(UNIQUE_COLUMNS_VEC), sel, rows)

\* the rows whose field in selected position i is counted under the null policy
RowsCounted(i) ==
    Cardinality({k \in DOMAIN rows :
                    ~args.flag_no_nulls \/ rows[k][sel[i]] # <<>>})

\* C1: whenever parallel_ftables returns with every worker having sent its
\* chunk's tables (N >= 1 rows, any job count > 1, any order of sending and
\* receiving), the merged tables are the tables of one sequential pass.
C1_ParallelEqualsSequential ==
    (TablesReturned /\ nchunks > 0 /\ AllWorkersSent)
        => tables = SequentialTables

\* C1 witness: a parallel run of at least two chunks has returned, and some
\* value was counted by two different workers, so that merging summed it
C1_Witness ==
    /\ TablesReturned /\ nchunks >= 2 /\ AllWorkersSent
    /\ \E i, j \in Workers : \E c \in DOMAIN tables :
          /\ i # j
          /\ DOMAIN WorkerResult(i)[c] \cap DOMAIN WorkerResult(j)[c] # {}

CachedUnique(c) == ~cache_unusable(cache) /\ cache.card[c] = cache.rowcount

\* the output of selected position j is the single all-unique entry
ReportedAllUnique(j) ==
    /\ Len(out[j]) = 1
    /\ out[j][1].value = args.flag_all_unique_text

\* C4: for every selection, a selected column is short-circuited (not
\* counted, reported as the single all-unique entry) if and only if that
\* same input column's cached cardinality equals the row count.
C4_ShortCircuitSameColumn ==
    pc = "done"
        => \A j \in DOMAIN out :
              ReportedAllUnique(j) <=> CachedUnique(sel[j])

\* C5: parallel_ftables never returns tables merged from only a strict
\* subset of the nchunks workers.
C5_NoPartialMerge ==
    (TablesReturned /\ nchunks > 0) => nmerged = nchunks

\* the aggregation has ended and returned Ok to run
AggregationReturnedOk ==
    /\ selection_valid(args.flag_select)
    /\ pc \in {"tables", "done", "panicked"}
    /\ runs_parallel /\ Len(rows) > 0
           => /\ \A i \in Workers : SenderDropped(i)
              /\ chan = <<>>
              /\ merged # None

-----------------------------------------------------------------------------
(* Properties of the post-processing (checked under SpecPost) *)

\* the table of the one selected column
Ftab == tables[1]

\* process_frequencies has returned the entries of the column
Processed == col > 1

\* the column is not in the Unique-Column Set
RegularColumn == ~Contains(Unwrap(UNIQUE_COLUMNS_VEC), 1)

\* how a value of the table is displayed
Display(v) == IF v = <<>> THEN NULL_VAL ELSE v

\* e is the Other bucket: labelled with the Other text, and not a value of
\* the table
IsOtherEntry(e) ==
    /\ args.flag_other_text # OtherDisabled
    /\ starts_with(e.value, OtherPrefix(args.flag_other_text))
    /\ e.value \notin {Display(v) : v \in DOMAIN Ftab}

\* the output entries of the column that are values, and those that are
\* Other buckets
ValueEntries == SelectSeq(out[1], LAMBDA e : ~IsOtherEntry(e))
OtherEntries == SelectSeq(out[1], IsOtherEntry)

\* the (value, count) pairs of the value entries
ValuePairs == {<<ValueEntries[k].value, ValueEntries[k].count>> :
                  k \in DOMAIN ValueEntries}

\* the values of the table that the output retains
Retained == {v \in DOMAIN Ftab :
                \E k \in DOMAIN ValueEntries : ValueEntries[k].value = Display(v)}

\* the most frequent value of the table has count 1
EffectivelyAllUnique ==
    DOMAIN Ftab # {} /\ \A v \in DOMAIN Ftab : Ftab[v] = 1

\* C3: for a column in the Unique-Column Set, process_frequencies emits
\* exactly one entry: the --all-unique-text, the row count, the percentage
\* 100 formatted "100", whatever limit, unq-limit, lmt-threshold, asc,
\* other-text and other-sorted are.
C3_UniqueColumnSingleEntry ==
    (Processed /\ ~RegularColumn)
        => out[1] = << [value |-> args.flag_all_unique_text,
                        count |-> Unwrap(FREQ_ROW_COUNT),
                        percentage |-> Pct100,
                        formatted_percentage |-> [m |-> 100, s |-> 0]] >>

\* C3 witness: an all-unique column was processed under a negative limit
\* that its row count does not reach, a threshold, --asc, a disabled Other
\* bucket and fixed decimal places
C3_Witness ==
    /\ Processed /\ ~RegularColumn
    /\ args.flag_limit < 0
    /\ Unwrap(FREQ_ROW_COUNT) < Abs(args.flag_limit)
    /\ args.flag_lmt_threshold > 0
    /\ args.flag_asc
    /\ args.flag_other_text = OtherDisabled
    /\ args.flag_pct_dec_places > 0

\* C6 (as stated): for every regular column, table and option combination,
\* the counts of the output entries, Other bucket included, sum to the
\* total count of the table.
C6_CountClosure ==
    (Processed /\ RegularColumn) => SumCounts(out[1]) = TotalCount(Ftab)

\* C6 (amended): the counts of the output entries sum to the total count of
\* the table whenever the Other bucket is not disabled; with the Other bucket
\* disabled they sum to the counts of the retained values only.
C6_CountClosureOtherEnabled ==
    (Processed /\ RegularColumn)
        => IF args.flag_other_text # OtherDisabled
           THEN SumCounts(out[1]) = TotalCount(Ftab)
           ELSE SumCounts(out[1]) = SumSet(Ftab, Retained)

\* C6 witness: limiting removed a value counted more than once and the
\* Other bucket reports it
C6_Witness ==
    /\ Processed /\ RegularColumn
    /\ Len(OtherEntries) = 1
    /\ \E v \in DOMAIN Ftab \ Retained : Ftab[v] > 1

\* C7: with a negative --limit -k and lmt-threshold 0, the value entries are
\* exactly the values counted at least k times, each once with its count;
\* the removed values are reported, unless the Other bucket is disabled, in
\* one Other entry with the sum of their counts, labelled with their number.
C7_NegativeLimitFloor ==
    (Processed /\ RegularColumn /\ args.flag_limit < 0
       /\ args.flag_lmt_threshold = 0)
        => LET k == Abs(args.flag_limit)
               kept == {v \in DOMAIN Ftab : Ftab[v] >= k}
               removed == DOMAIN Ftab \ kept
           IN  /\ ValuePairs = {<<Display(v), Ftab[v]>> : v \in kept}
               /\ Len(ValueEntries) = Cardinality(kept)
               /\ IF removed # {} /\ args.flag_other_text # OtherDisabled
                  THEN /\ Len(OtherEntries) = 1
                       /\ OtherEntries[1].count = SumSet(Ftab, removed)
                       /\ OtherEntries[1].value =
                             OtherLabel(args.flag_other_text, Cardinality(removed))
                  ELSE OtherEntries = <<>>

\* C7 witness: under --limit -k a value counted exactly k times is retained
\* and a value counted less is reported in the Other entry
C7_Witness ==
    /\ Processed /\ RegularColumn
    /\ args.flag_limit < 0 /\ args.flag_lmt_threshold = 0
    /\ \E v \in Retained : Ftab[v] = Abs(args.flag_limit)
    /\ \E v \in DOMAIN Ftab : Ftab[v] < Abs(args.flag_limit)
    /\ Len(OtherEntries) = 1

\* C8: with a positive --limit, with and without --asc, every value the
\* output retains is counted at least as often as every value the limit
\* excluded.
C8_PositiveLimitMostCommon ==
    (Processed /\ RegularColumn /\ args.flag_limit > 0)
        => \A v \in Retained : \A w \in DOMAIN Ftab \ Retained :
              Ftab[v] >= Ftab[w]

\* C9: when the most frequent value has count 1, limit > 0, unq-limit > 0
\* and unq-limit # limit, and the limits are applicable, the number of value
\* entries is min(unq-limit, number of distinct values).
C9_UnqLimitOnly ==
    (Processed /\ RegularColumn /\ EffectivelyAllUnique
       /\ limits_apply(args, FreqLen(Ftab))
       /\ args.flag_limit > 0 /\ args.flag_unq_limit > 0
       /\ args.flag_unq_limit # args.flag_limit)
        => Len(ValueEntries) = Min(args.flag_unq_limit, FreqLen(Ftab))

\* the (value, count) pairs the limiting policy may retain, and those of the
\* unlimited table
PolicyPairs ==
    {{<<Display(c[k][1]), c[k][2]>> : k \in DOMAIN c} :
        c \in {limit_counts([args EXCEPT !.flag_lmt_threshold = 0], sorted) :
                  sorted \in par_frequent(Ftab, args.flag_asc)}}
UnlimitedPairs == {<<Display(v), Ftab[v]>> : v \in DOMAIN Ftab}

\* C10 (as stated): the limiting policy is applied if lmt-threshold is 0 or
\* the number of distinct values is strictly below it, and otherwise (the
\* number equals or exceeds a non-zero threshold) the column is output
\* unlimited.
C10_LimitsIffBelowThreshold ==
    (Processed /\ RegularColumn)
        => IF \/ args.flag_lmt_threshold = 0
              \/ FreqLen(Ftab) < args.flag_lmt_threshold
           THEN ValuePairs \in PolicyPairs
           ELSE ValuePairs = UnlimitedPairs

\* C10 (amended): the limiting policy is applied if lmt-threshold is 0 or
\* the number of distinct values is at most lmt-threshold, and otherwise
\* (the number strictly exceeds a non-zero threshold) the column is output
\* unlimited.
C10_LimitsIffAtMostThreshold ==
    (Processed /\ RegularColumn)
        => IF \/ args.flag_lmt_threshold = 0
              \/ FreqLen(Ftab) <= args.flag_lmt_threshold
           THEN ValuePairs \in PolicyPairs
           ELSE ValuePairs = UnlimitedPairs

\* C10 witness: a column with exactly lmt-threshold distinct values was
\* limited
C10_Witness ==
    /\ Processed /\ RegularColumn
    /\ args.flag_lmt_threshold > 0
    /\ FreqLen(Ftab) = args.flag_lmt_threshold
    /\ Len(ValueEntries) < FreqLen(Ftab)

\* C11: with a non-zero --lmt-threshold T, the limiting policy is applied to a
\* column exactly when its number of distinct values is >= T; a column with
\* fewer than T distinct values is output unlimited.
C11_LimitsIffAtLeastThreshold ==
    (Processed /\ RegularColumn /\ args.flag_lmt_threshold > 0)
        => IF FreqLen(Ftab) >= args.flag_lmt_threshold
           THEN ValuePairs \in PolicyPairs
           ELSE ValuePairs = UnlimitedPairs

\* the entries es are in the count order of the sort direction
CountSorted(es) ==
    \A k \in 1..(Len(es) - 1) :
        IF args.flag_asc THEN es[k].count <= es[k + 1].count
        ELSE es[k].count >= es[k + 1].count

\* C13: without --other-sorted, an emitted Other bucket is the last entry of
\* the column's output and the value entries before it are in count order,
\* also when a data value begins with the Other text followed by " (".
C13_OtherLast ==
    (Processed /\ RegularColumn /\ ~args.flag_other_sorted
       /\ OtherEntries # <<>>)
        => /\ IsOtherEntry(out[1][Len(out[1])])
           /\ CountSorted(ValueEntries)

\* C14: with --other-sorted, in the CSV and in the JSON output, all entries
\* of a column, the Other bucket included, are in non-increasing count order
\* (non-decreasing with --asc).
C14_OtherSortedByCount ==
    (Processed /\ RegularColumn /\ args.flag_other_sorted)
        => CountSorted(out[1])

-----------------------------------------------------------------------------
(* Specification of the value normalization: a sequential run over rows     *)
(* whose first field is empty, whitespace, mixed case or not UTF-8, under   *)
(* every combination of --no-nulls, --no-trim and --ignore-case             *)

\* the fields drawn for column 1: empty, one space, "A" followed by a space,
\* a vertical tab (whitespace to str::trim only), an invalid byte and a space
NormFields ==
    { <<>>, <<" ">>, <<"A", " ">>, <<"VT">>, <<"xFF", " ">> }

NormRowSet == {<<f, <<"x">>>> : f \in NormFields}

InitNorm ==
    /\ SplitIdle
    /\ rows \in SeqsUpTo(NormRowSet, MaxRows)
    /\ indexed = FALSE
    /\ cache = NoCache
    /\ args \in {[DefaultArgs EXCEPT !.flag_select = s, !.flag_no_nulls = nn,
                                     !.flag_no_trim = nt, !.flag_ignore_case = ic] :
                    s \in Selections, nn \in BOOLEAN, nt \in BOOLEAN,
                    ic \in BOOLEAN}
    /\ UNIQUE_COLUMNS_VEC = None
    /\ FREQ_ROW_COUNT = None
    /\ sel = <<>>
    /\ pc = "start"
    /\ nchunks = 0
    /\ wstate = <<>>
    /\ chan = <<>>
    /\ merged = None
    /\ nmerged = 0
    /\ tables = <<>>
    /\ col = 1
    /\ out = <<>>
    /\ wtr = <<>>

NextNorm ==
    \/ SequentialFtables
    \/ ProcessColumn
    \/ Finish

SpecNorm == InitNorm /\ [][NextNorm]_vars

-----------------------------------------------------------------------------
(* Properties of the value normalization (checked under SpecNorm) *)

\* C12: with --no-nulls no frequency table holds the empty-value key and no
\* (NULL) entry appears in the output, whatever the fields are, fields of
\* whitespace only under trimming included.
C12_NoNullsNoEmptyKey ==
    (TablesReturned /\ args.flag_no_nulls)
        => /\ \A i \in DOMAIN tables : EMPTY_BYTE_VEC \notin DOMAIN tables[i]
           /\ \A j \in DOMAIN out : \A k \in DOMAIN out[j] :
                 out[j][k].value # NULL_VAL

-----------------------------------------------------------------------------
(* Specification of the percentages of one column: the post-processing of   *)
(* a table of up to four values whose counts sum to at most MaxPctTotal,    *)
(* under every --pct-dec-places from -MaxDecPlaces to MaxDecPlaces          *)

MaxPctTotal == 8
MaxDecPlaces == 5

PctValues == { <<>>, <<"a">>, <<"b">>, <<"c">> }

PctTables ==
    {ft \in UNION {[D -> 1..(MaxPctTotal - 3)] : D \in SUBSET PctValues} :
        TotalCount(ft) <= MaxPctTotal}

PctArgs ==
    {[DefaultArgs EXCEPT !.flag_select = <<1>>,
                         !.flag_limit = l,
                         !.flag_json = js,
                         !.flag_pct_dec_places = dp] :
        l \in {DefaultLimit, 1, 2}, js \in BOOLEAN,
        dp \in (-MaxDecPlaces)..MaxDecPlaces}

InitPct ==
    /\ SplitIdle
    /\ args \in PctArgs
    /\ UNIQUE_COLUMNS_VEC = Some(<<>>)
    /\ FREQ_ROW_COUNT = None
    /\ tables \in {<<ft>> : ft \in PctTables}
    /\ sel = <<1>>
    /\ pc = "tables"
    /\ col = 1
    /\ out = <<>>
    /\ rows = <<>>
    /\ indexed = FALSE
    /\ cache = NoCache
    /\ nchunks = 0
    /\ wstate = <<>>
    /\ chan = <<>>
    /\ merged = None
    /\ nmerged = 0
    /\ wtr = write_header(args, <<>>)

NextPct ==
    \/ ProcessColumn
    \/ OutputJsonField
    \/ Finish

SpecPct == InitPct /\ [][NextPct]_vars

-----------------------------------------------------------------------------
(* Properties of the percentages (checked under SpecPct) *)

\* the percentage pct = num/den rounded half away from zero to dp places
RoundedHalfAway(pct, dp) ==
    Normalize([m |-> (2 * pct.num * Pow10(dp) + pct.den) \div (2 * pct.den),
               s |-> dp])

\* C15: every formatted percentage has at most |--pct-dec-places| digits
\* after the decimal point and is the percentage rounded half away from zero
\* to that many places, for negative and non-negative settings.
C15_FormattedPercentageRounded ==
    Processed
        => \A k \in DOMAIN out[1] :
              /\ out[1][k].formatted_percentage.s <= abs_dec_places(args)
              /\ out[1][k].formatted_percentage =
                    RoundedHalfAway(out[1][k].percentage, abs_dec_places(args))

\* C15 witness: 1 of 3 under --pct-dec-places -5 is formatted 33.33333
C15_Witness ==
    /\ Processed
    /\ args.flag_pct_dec_places = -5
    /\ \E k \in DOMAIN out[1] :
          /\ out[1][k].percentage = [num |-> 100, den |-> 3]
          /\ out[1][k].formatted_percentage = [m |-> 3333333, s |-> 5]

RECURSIVE SumFormatted(_, _)
\* the sum of the formatted percentages of the entries es, in units of
\* 10^-dp
SumFormatted(es, dp) ==
    IF es = <<>> THEN 0
    ELSE Head(es).formatted_percentage.m
            * Pow10(dp - Head(es).formatted_percentage.s)
         + SumFormatted(Tail(es), dp)

\* by how many units of 10^-|--pct-dec-places| the formatted percentages of
\* the column sum to more than 100
ExcessUnits ==
    SumFormatted(out[1], abs_dec_places(args)) - 100 * Pow10(abs_dec_places(args))

\* C16 (as stated): the formatted percentages of a column's entries never
\* sum to more than 100 plus one unit of the last configured decimal place,
\* whatever the number of entries.
C16_PercentageSumWithinOneUnit ==
    Processed => ExcessUnits <= 1

\* C16 (amended): the formatted percentages of a column's n entries never sum
\* to more than 100 plus n/2 units of the last configured decimal place.
C16_PercentageSumWithinHalfUnitPerEntry ==
    Processed => 2 * ExcessUnits <= Len(out[1])

\* C16 witness: four entries whose formatted percentages sum to 100 plus two
\* units
C16_Witness ==
    /\ Processed
    /\ Len(out[1]) = 4
    /\ ExcessUnits = 2

-----------------------------------------------------------------------------
(* Specification of a sequential run with a stats cache that may be absent, *)
(* accurate, or of a field count other than the input's                     *)

InitCache ==
    /\ SplitIdle
    /\ rows \in SeqsUpTo(RowSet, MaxRows)
    /\ indexed = FALSE
    /\ cache \in {NoCache, StatsCache(rows),
                  MismatchedCache(rows, -1), MismatchedCache(rows, 1)}
    /\ args \in {[DefaultArgs EXCEPT !.flag_select = s] : s \in Selections}
    /\ UNIQUE_COLUMNS_VEC = None
    /\ FREQ_ROW_COUNT = None
    /\ sel = <<>>
    /\ pc = "start"
    /\ nchunks = 0
    /\ wstate = <<>>
    /\ chan = <<>>
    /\ merged = None
    /\ nmerged = 0
    /\ tables = <<>>
    /\ col = 1
    /\ out = <<>>
    /\ wtr = <<>>

NextCache ==
    \/ SequentialFtables
    \/ ProcessColumn
    \/ Finish

SpecCache == InitCache /\ [][NextCache]_vars

-----------------------------------------------------------------------------
(* Properties of the stats cache (checked under SpecCache) *)

\* the cache holds records, but not one per field of the input
CacheMismatched == cache.card # <<>> /\ Len(cache.card) # NCols

\* C17: when the field count of the stats cache is not the header count of
\* the input, get_unique_headers returns the empty Unique-Column Set, and
\* every selected column is counted in full and none is reported all-unique.
C17_MismatchedCacheUnusable ==
    (CacheMismatched /\ pc # "start")
        => /\ UNIQUE_COLUMNS_VEC = Some(<<>>)
           /\ \A i \in DOMAIN tables : TotalCount(tables[i]) = RowsCounted(i)
           /\ \A j \in DOMAIN out : ~ReportedAllUnique(j)

\* C17 witness: a run over two or more rows has finished with a mismatched
\* cache in which the first selected position's cardinality is the row count
C17_Witness ==
    /\ CacheMismatched
    /\ pc = "done"
    /\ Len(rows) >= 2
    /\ cache.card[1] = cache.rowcount
    /\ Len(out[1]) >= 2

-----------------------------------------------------------------------------
(* `qsv split`: splitting by record count or by number of chunks *)

\* util::count_rows / idx.count(): the number of records of the input
count_rows(rs) == Len(rs)

\* (count as f64 / chunk as f64).ceil() as usize; the quotient by zero is
\* NaN for count = 0 (cast to 0) and +inf otherwise (cast to usize::MAX)
ceil_div(count, chunk) ==
    IF chunk = 0
    THEN IF count = 0 THEN 0 ELSE USIZE_MAX
    ELSE (count \div chunk) + (IF count % chunk # 0 THEN 1 ELSE 0)

\* new_writer: the file for `start` is created (or truncated) and holds the
\* header row unless --no-headers
new_writer(dir, start, a) ==
    [k \in (DOMAIN dir) \cup {start} |->
        IF k = start
        THEN IF a.flag_no_headers THEN <<>> ELSE <<HeaderRecord>>
        ELSE dir[k]]

\* wtr.write_byte_record(&row) on the writer of the file for `start`
write_byte_record(dir, start, row) == [dir EXCEPT ![start] = Append(@, row)]

\* chunk_size of sequential_split
seq_chunk_size(a, rs) ==
    IF a.flag_chunks # None
    THEN ceil_div(count_rows(rs), Unwrap(a.flag_chunks))
    ELSE a.flag_size

\* chunk_size and nchunks of parallel_split
par_chunk_size(a, rs) ==
    IF a.flag_chunks # None
    THEN ceil_div(count_rows(rs), Unwrap(a.flag_chunks))
    ELSE a.flag_size

par_nchunks(a, rs) ==
    IF a.flag_chunks # None
    THEN Unwrap(a.flag_chunks)
    ELSE num_of_chunks(count_rows(rs), a.flag_size)

\* seq_step with the record written before the writer is rotated
seq_step_WriteBeforeRotate(dir, cur, i, csize, row, a) ==
    LET rotate == i > 0 /\ i % csize = 0
        dir1   == write_byte_record(dir, cur, row)
    IN  [dir |-> IF rotate THEN new_writer(dir1, i, a) ELSE dir1,
         cur |-> IF rotate THEN i ELSE cur]

\* one iteration of sequential_split's loop over record number i (from 0):
\* a new writer is opened at every multiple of chunk_size but the first, then
\* the record goes to the open writer
seq_step(dir, cur, i, csize, row, a) ==
    LET rotate == i > 0 /\ i % csize = 0
        start  == IF rotate THEN i ELSE cur
        dir1   == IF rotate THEN new_writer(dir, i, a) ELSE dir
    IN  [dir |-> write_byte_record(dir1, start, row), cur |-> start]

\* idx.byte_records().take(chunk_size) after idx.seek(start): the records
\* start .. start + chunk_size - 1 that exist
take_from(rs, start, csize) ==
    SubSeq(rs, start + 1, Min(start + csize, Len(rs)))

\* idx.seek(i): whether record i exists to seek to
seek_in_bounds(rs, i) == i < count_rows(rs)

\* fs::remove_file: the directory without the file of `start`
remove_file(dir, start) == [k \in (DOMAIN dir) \ {start} |-> dir[k]]

\* run_filter_command for the chunk of `start`, `ok` being whether the command
\* exits with status 0: nothing happens without --filter or when the file does
\* not exist; a failing command is an error unless --filter-ignore-errors; on
\* every other path --filter-cleanup removes the file.  `ran` tells whether
\* the command was executed
run_filter_command(dir, start, a, ok) ==
    IF ~a.flag_filter \/ start \notin DOMAIN dir
    THEN [dir |-> dir, err |-> FALSE, ran |-> FALSE]
    ELSE IF ~ok /\ ~a.flag_filter_ignore_errors
    THEN [dir |-> dir, err |-> TRUE, ran |-> TRUE]
    ELSE [dir |-> IF a.flag_filter_cleanup THEN remove_file(dir, start) ELSE dir,
          err |-> FALSE, ran |-> TRUE]

\* the exit statuses seen so far, with that of the command run for `start`
filter_status(fl, start, ok, ran) ==
    IF ran
    THEN [k \in (DOMAIN fl) \cup {start} |-> IF k = start THEN ok ELSE fl[k]]
    ELSE fl

\* sequential_split's `i > 0 && i % chunk_size == 0`
chunk_full(i, csize) == i > 0 /\ i % csize = 0

\* ((i - 1) / chunk_size) * chunk_size for i >= 1
last_chunk_start(i, csize) == ((i - 1) \div csize) * csize

\* run: --size 0 is a usage error
SplitUsageError ==
    /\ spc = "start"
    /\ sargs.flag_size = 0
    /\ spc' = "error"
    /\ UNCHANGED <<sargs, si, swtr, sworker, outdir, sfilter, sleft, sbytes, rows, indexed,
                   frequency_vars>>

\* run chooses sequential_split for un-indexed input, and parallel_split
\* falls back to it when there is one chunk
takes_sequential ==
    \/ ~indexed
    \/ par_nchunks(sargs, rows) = 1

\* sequential_split up to its loop: --chunks 0 is a usage error, otherwise the
\* first writer is opened at 0
SequentialSplitOpen ==
    /\ spc = "start"
    /\ sargs.flag_size # 0
    /\ sargs.flag_kb_size = None
    /\ takes_sequential
    /\ IF sargs.flag_chunks = Some(0)
       THEN /\ spc' = "error"
            /\ UNCHANGED <<swtr, outdir>>
       ELSE /\ spc' = "seq"
            /\ swtr' = Some(0)
            /\ outdir' = new_writer(outdir, 0, sargs)
    /\ si' = 0
    /\ UNCHANGED <<sargs, sworker, sfilter, sleft, sbytes, rows, indexed, frequency_vars>>

\* sequential_split: one iteration of the loop.  When the chunk is full the
\* filter command runs for it first, and its error ends the run before the
\* next writer is opened
SequentialSplitRow ==
    /\ spc = "seq"
    /\ si < Len(rows)
    /\ \E ok \in BOOLEAN :
          LET csize == seq_chunk_size(sargs, rows)
              f == IF chunk_full(si, csize)
                   THEN run_filter_command(outdir, si - csize, sargs, ok)
                   ELSE [dir |-> outdir, err |-> FALSE, ran |-> FALSE]
              r == seq_step(f.dir, Unwrap(swtr), si, csize, rows[si + 1], sargs)
          IN  /\ sfilter' = filter_status(sfilter, si - csize, ok, f.ran)
              /\ IF f.err
                 THEN /\ spc' = "error"
                      /\ outdir' = f.dir
                      /\ UNCHANGED <<swtr, si>>
                 ELSE /\ outdir' = r.dir
                      /\ swtr' = Some(r.cur)
                      /\ si' = si + 1
                      /\ UNCHANGED spc
    /\ UNCHANGED <<sargs, sworker, sleft, sbytes, rows, indexed, frequency_vars>>

\* sequential_split: the reader is exhausted, the last writer is flushed and
\* the filter command runs for the last chunk.  Without any record `i - 1`
\* underflows: a build with overflow checks panics there, one without them
\* panics on a chunk_size of 0 and otherwise finds no file for the wrapped
\* start index
SequentialSplitEnd ==
    /\ spc = "seq"
    /\ si = Len(rows)
    /\ swtr' = None
    /\ \E ok \in BOOLEAN, overflow_checks \in BOOLEAN :
          LET csize == seq_chunk_size(sargs, rows)
          IN  IF ~sargs.flag_filter
              THEN /\ spc' = "done"
                   /\ UNCHANGED <<outdir, sfilter>>
              ELSE IF si = 0
              THEN /\ spc' = IF overflow_checks \/ csize = 0
                             THEN "panicked" ELSE "done"
                   /\ UNCHANGED <<outdir, sfilter>>
              ELSE LET start == last_chunk_start(si, csize)
                       f == run_filter_command(outdir, start, sargs, ok)
                   IN  /\ spc' = IF f.err THEN "error" ELSE "done"
                       /\ outdir' = f.dir
                       /\ sfilter' = filter_status(sfilter, start, ok, f.ran)
    /\ UNCHANGED <<sargs, si, sworker, sleft, sbytes, rows, indexed, frequency_vars>>

\* parallel_split up to for_each: one closure per chunk number
ParallelSplitSpawn ==
    /\ spc = "start"
    /\ sargs.flag_size # 0
    /\ sargs.flag_kb_size = None
    /\ ~takes_sequential
    /\ spc' = "par"
    /\ sworker' = [i \in 0..(par_nchunks(sargs, rows) - 1) |-> "todo"]
    /\ UNCHANGED <<sargs, si, swtr, outdir, sfilter, sleft, sbytes, rows, indexed,
                   frequency_vars>>

\* the closure of chunk i when idx.seek returns Ok: the file for i * chunk_size
\* is created, then the records the index yields from there are written and
\* the filter command runs, its error being printed only.  What seek returns
\* for a record number that does not exist is decided outside this file, so
\* both outcomes are allowed for it
ParallelSplitChunk(i) ==
    /\ spc = "par"
    /\ sworker[i] = "todo"
    /\ \E ok \in BOOLEAN :
          LET csize == par_chunk_size(sargs, rows)
              start == i * csize
              dir1  == new_writer(outdir, start, sargs)
              dir2  == [dir1 EXCEPT ![start] = @ \o take_from(rows, start, csize)]
              f     == run_filter_command(dir2, start, sargs, ok)
          IN  /\ outdir' = f.dir
              /\ sfilter' = filter_status(sfilter, start, ok, f.ran)
    /\ sworker' = [sworker EXCEPT ![i] = "done"]
    /\ UNCHANGED <<sargs, spc, si, swtr, sleft, sbytes, rows, indexed, frequency_vars>>

\* the closure of chunk i when idx.seek returns Err for a record number that
\* does not exist: unwrap panics after new_writer has created the file
ParallelSplitSeekPanics(i) ==
    /\ spc = "par"
    /\ sworker[i] = "todo"
    /\ ~seek_in_bounds(rows, i * par_chunk_size(sargs, rows))
    /\ outdir' = new_writer(outdir, i * par_chunk_size(sargs, rows), sargs)
    /\ sworker' = [sworker EXCEPT ![i] = "panicked"]
    /\ UNCHANGED <<sargs, spc, si, swtr, sfilter, sleft, sbytes, rows, indexed, frequency_vars>>

\* for_each returns when every closure has run; a closure's panic is resumed
\* in the caller
ParallelSplitJoin ==
    /\ spc = "par"
    /\ \A i \in DOMAIN sworker : sworker[i] # "todo"
    /\ spc' = IF \E i \in DOMAIN sworker : sworker[i] = "panicked"
              THEN "panicked" ELSE "done"
    /\ UNCHANGED <<sargs, si, swtr, sworker, outdir, sfilter, sleft, sbytes, rows, indexed,
                   frequency_vars>>

\* a split that has not started yet
SplitStarts ==
    /\ FrequencyIdle
    /\ rows \in {SplitInput(n) : n \in 0..MaxSplitRows}
    /\ indexed \in BOOLEAN
    /\ spc = "start"
    /\ si = 0
    /\ swtr = None
    /\ sworker = <<>>
    /\ outdir = EmptyDir
    /\ sfilter = <<>>
    /\ sleft = 0

InitSplit ==
    /\ SplitStarts
    /\ sbytes = NoBytes
    /\ sargs \in SplitArgs

NextSplit ==
    \/ SplitUsageError
    \/ SequentialSplitOpen
    \/ SequentialSplitRow
    \/ SequentialSplitEnd
    \/ ParallelSplitSpawn
    \/ \E i \in DOMAIN sworker : ParallelSplitChunk(i)
    \/ \E i \in DOMAIN sworker : ParallelSplitSeekPanics(i)
    \/ ParallelSplitJoin

SpecSplit == InitSplit /\ [][NextSplit]_vars

(* Splitting with a --filter command *)

FilterArgs ==
    {[a EXCEPT !.flag_filter = TRUE, !.flag_filter_cleanup = fc,
               !.flag_filter_ignore_errors = fi] :
        a \in SplitArgs, fc \in BOOLEAN, fi \in BOOLEAN}

InitFilter ==
    /\ SplitStarts
    /\ sbytes = NoBytes
    /\ sargs \in FilterArgs

NextFilter ==
    \/ SplitUsageError
    \/ SequentialSplitOpen
    \/ SequentialSplitRow
    \/ SequentialSplitEnd
    \/ ParallelSplitSpawn
    \/ \E i \in DOMAIN sworker : ParallelSplitChunk(i)
    \/ \E i \in DOMAIN sworker : ParallelSplitSeekPanics(i)
    \/ ParallelSplitJoin

SpecFilter == InitFilter /\ [][NextFilter]_vars

-----------------------------------------------------------------------------
(* `qsv split --kb-size`: splitting by chunk size in kilobytes *)

\* bounds of the inputs of a split by size in kilobytes
MaxKb == 2
MaxKbRows == 3

\* serialized lengths of the records and of the header row of the inputs: a
\* record may fill a 1 KB chunk with a short header row exactly (1015 + 9) or
\* be longer than it, and a header row may be longer than 1 KB
KbRecordBytes == {100, 500, 1015, 1100}
KbHeaderBytes == {9, 1030}

\* usize subtraction without overflow checks: it wraps around
wrapping_sub(a, b) == IF a >= b THEN a - b ELSE (USIZE_MAX - (b - a)) + 1

\* header_byte_size of split_by_kb_size
header_byte_size(a, bytes) == IF a.flag_no_headers THEN 0 ELSE bytes.header

\* chunk_size_bytes of split_by_kb_size
chunk_size_bytes(a) == Unwrap(a.flag_kb_size) * 1024

\* split_by_kb_size up to its loop: the first writer is opened at 0, the
\* remaining-bytes counter is set (a build with overflow checks panics when
\* the header row is longer than the chunk, one without them wraps) and the
\* first record is written
KbSplitOpen ==
    /\ spc = "start"
    /\ sargs.flag_size # 0
    /\ sargs.flag_kb_size # None
    /\ \E overflow_checks \in BOOLEAN :
          LET h    == header_byte_size(sargs, sbytes)
              cb   == chunk_size_bytes(sargs)
              dir1 == new_writer(outdir, 0, sargs)
              row  == IF rows = <<>> THEN <<>> ELSE rows[1]
          IN  IF cb < h /\ overflow_checks
              THEN /\ spc' = "panicked"
                   /\ outdir' = dir1
                   /\ UNCHANGED sleft
              ELSE /\ spc' = IF rows = <<>> THEN "kbend" ELSE "kb"
                   /\ outdir' = write_byte_record(dir1, 0, row)
                   /\ sleft' = wrapping_sub(cb, h)
    /\ swtr' = Some(0)
    /\ si' = 0
    /\ UNCHANGED <<sargs, sworker, sfilter, sbytes, rows, indexed, frequency_vars>>

\* split_by_kb_size: one iteration of the loop, record si being the current
\* one and record si + 1, if there is one, the next.  When both do not fit
\* the remaining bytes, the filter command runs for the open chunk, a new
\* writer is opened at i and the counter is reset; then the next record is
\* written and the counter is decreased by the length of the current one
KbSplitRow ==
    /\ spc = "kb"
    /\ \E ok \in BOOLEAN, overflow_checks \in BOOLEAN :
          LET curr_size_bytes == sbytes.records[si + 1]
              not_empty       == si + 2 <= Len(rows)
              next_size_bytes == IF not_empty THEN sbytes.records[si + 2] ELSE 0
              rotate == curr_size_bytes + next_size_bytes >= sleft
              f      == IF rotate
                        THEN run_filter_command(outdir, Unwrap(swtr), sargs, ok)
                        ELSE [dir |-> outdir, err |-> FALSE, ran |-> FALSE]
              start  == IF rotate THEN si ELSE Unwrap(swtr)
              dir1   == IF rotate THEN new_writer(f.dir, si, sargs) ELSE f.dir
              left1  == IF rotate
                        THEN wrapping_sub(chunk_size_bytes(sargs),
                                          header_byte_size(sargs, sbytes))
                        ELSE sleft
          IN  /\ sfilter' = filter_status(sfilter, Unwrap(swtr), ok, f.ran)
              /\ IF f.err
                 THEN /\ spc' = "error"
                      /\ outdir' = f.dir
                      /\ UNCHANGED <<swtr, si, sleft>>
                 ELSE /\ swtr' = Some(start)
                      /\ IF next_size_bytes > 0
                         THEN /\ outdir' = write_byte_record(dir1, start, rows[si + 2])
                              /\ IF left1 < curr_size_bytes /\ overflow_checks
                                 THEN /\ spc' = "panicked"
                                      /\ UNCHANGED <<si, sleft>>
                                 ELSE /\ spc' = "kb"
                                      /\ sleft' = wrapping_sub(left1, curr_size_bytes)
                                      /\ si' = si + 1
                         ELSE /\ outdir' = dir1
                              /\ sleft' = left1
                              /\ spc' = "kbend"
                              /\ UNCHANGED si
    /\ UNCHANGED <<sargs, sworker, sbytes, rows, indexed, frequency_vars>>

\* split_by_kb_size after its loop: the last writer is flushed and the filter
\* command runs for the last chunk
KbSplitEnd ==
    /\ spc = "kbend"
    /\ \E ok \in BOOLEAN :
          LET f == run_filter_command(outdir, Unwrap(swtr), sargs, ok)
          IN  /\ spc' = IF f.err THEN "error" ELSE "done"
              /\ outdir' = f.dir
              /\ sfilter' = filter_status(sfilter, Unwrap(swtr), ok, f.ran)
    /\ swtr' = None
    /\ UNCHANGED <<sargs, si, sworker, sleft, sbytes, rows, indexed, frequency_vars>>

KbArgs ==
    {[DefaultSplitArgs EXCEPT !.flag_kb_size = Some(k), !.flag_no_headers = nh,
                              !.flag_filter = fl] :
        k \in 1..MaxKb, nh \in BOOLEAN, fl \in BOOLEAN}

\* an input of one or more records with their serialized lengths
InitKb ==
    /\ SplitStarts
    /\ Len(rows) \in 1..MaxKbRows
    /\ indexed = FALSE
    /\ sargs \in KbArgs
    /\ \E h \in KbHeaderBytes :
          sbytes \in {[header |-> h, records |-> r] :
                         r \in [1..Len(rows) -> KbRecordBytes]}

NextKb ==
    \/ KbSplitOpen
    \/ KbSplitRow
    \/ KbSplitEnd

SpecKb == InitKb /\ [][NextKb]_vars

-----------------------------------------------------------------------------
(* Properties of split *)

\* what a chunk file starts with
FileHead == IF sargs.flag_no_headers THEN <<>> ELSE <<HeaderRecord>>

\* the multiples of s that are record numbers of an input of n records
ChunkStarts(n, s) == {k * s : k \in 0..n} \cap 0..(n - 1)

\* the chunk files in which record number r (from 0) occurs
FilesHolding(r) ==
    {f \in DOMAIN outdir : \E j \in DOMAIN outdir[f] : outdir[f][j] = rows[r + 1]}

\* a split of un-indexed input by --size has finished
SequentialBySizeDone ==
    /\ spc = "done"
    /\ ~indexed
    /\ sargs.flag_chunks = None

\* C19: when un-indexed input of N >= 1 records has been split by --size s,
\* the chunk files are exactly those of the start indices k*s < N, the file of
\* k*s holds (after the header row unless --no-headers) exactly the records
\* k*s .. min(k*s+s, N)-1 in input order, and every record is in exactly one
\* file
C19_SplitBySizePartitions ==
    (SequentialBySizeDone /\ Len(rows) >= 1) =>
        LET N == Len(rows)
            s == sargs.flag_size
        IN  /\ DOMAIN outdir = ChunkStarts(N, s)
            /\ \A f \in DOMAIN outdir :
                  /\ f < N
                  /\ outdir[f] = FileHead \o SubSeq(rows, f + 1, Min(f + s, N))
            /\ \A r \in 0..(N - 1) : Cardinality(FilesHolding(r)) = 1

\* C19 witness: four records have been split by --size 3 into a full chunk
\* and a shorter last one, with header rows
C19_Witness ==
    /\ SequentialBySizeDone
    /\ Len(rows) = 4
    /\ sargs.flag_size = 3
    /\ ~sargs.flag_no_headers
    /\ DOMAIN outdir = {0, 3}
    /\ Len(outdir[0]) = 4
    /\ Len(outdir[3]) = 2

\* sequential_split's loop run to the end from record number i
RECURSIVE seq_loop(_, _, _, _, _)
seq_loop(dir, cur, i, rs, a) ==
    IF i >= Len(rs) THEN dir
    ELSE LET r == seq_step(dir, cur, i, seq_chunk_size(a, rs), rs[i + 1], a)
         IN  seq_loop(r.dir, r.cur, i + 1, rs, a)

\* how sequential_split ends on the same input and command line, and the
\* chunk files it leaves
SequentialOutcome ==
    IF sargs.flag_chunks = Some(0)
    THEN [status |-> "error", dir |-> EmptyDir]
    ELSE [status |-> "done",
          dir |-> seq_loop(new_writer(EmptyDir, 0, sargs), 0, 0, rows, sargs)]

\* a split of indexed input has ended, after the --size check of run
IndexedSplitEnded ==
    /\ indexed
    /\ sargs.flag_size # 0
    /\ spc \in {"done", "error", "panicked"}

\* C20: when a split of indexed input has ended, it has ended as
\* sequential_split ends on the same input and command line and has left
\* exactly the same chunk files with the same contents; in particular, for
\* an input with records, no chunk file has a start index that is not a
\* record number
C20_ParallelEqualsSequential ==
    IndexedSplitEnded =>
        /\ spc = SequentialOutcome.status
        /\ outdir = SequentialOutcome.dir
        /\ Len(rows) >= 1 => \A f \in DOMAIN outdir : f < Len(rows)

\* the number of records of the chunk file of start f, its header row apart
ChunkRecords(f) == Len(outdir[f]) - Len(FileHead)

\* a split by --chunks c of an input of at least c >= 1 records has ended
SplitByChunksEnded ==
    /\ spc \in {"done", "error", "panicked"}
    /\ sargs.flag_chunks # None
    /\ Unwrap(sargs.flag_chunks) >= 1
    /\ Len(rows) >= Unwrap(sargs.flag_chunks)

\* C21: when a split by --chunks c of N >= c records has ended, it has
\* succeeded, there are exactly c chunk files, each holds at least one
\* record, and every file but the one of the largest start index holds the
\* same number of records, the last one holding at most as many
C21_ExactlyChunksNonEmptyFiles ==
    SplitByChunksEnded =>
        /\ spc = "done"
        /\ Cardinality(DOMAIN outdir) = Unwrap(sargs.flag_chunks)
        /\ \A f \in DOMAIN outdir : ChunkRecords(f) >= 1
        /\ \A f, g \in DOMAIN outdir :
              f < g => /\ ChunkRecords(f) >= ChunkRecords(g)
                       /\ \A h \in DOMAIN outdir :
                             h > g => ChunkRecords(f) = ChunkRecords(g)

\* the split has ended
SplitEnded == spc \in {"done", "error", "panicked"}

\* the chunks for which the filter command was run and failed
FailedChunks == {f \in DOMAIN sfilter : ~sfilter[f]}

\* C22: when a split has ended in which the filter command failed for a chunk
\* and --filter-ignore-errors is not set, it has not ended successfully, for
\* un-indexed and for indexed input, and for un-indexed input there is no
\* chunk file of a start index after the failing chunk's
C22_FilterFailureIsError ==
    (SplitEnded /\ ~sargs.flag_filter_ignore_errors /\ FailedChunks # {}) =>
        /\ spc # "done"
        /\ ~indexed =>
              \A f \in FailedChunks : \A g \in DOMAIN outdir : g <= f

\* C23: with --filter-cleanup, a chunk file for which the filter command was
\* run is missing only if the command succeeded for it, whatever
\* --filter-ignore-errors is
C23_CleanupOnlyAfterSuccess ==
    sargs.flag_filter_cleanup =>
        \A f \in DOMAIN sfilter : f \notin DOMAIN outdir => sfilter[f]

\* the serialized length of a record of the input
RecordBytes(rec) == sbytes.records[CHOOSE k \in DOMAIN rows : rows[k] = rec]

\* the sum of the serialized lengths of the records of a file from position j
RECURSIVE SumRecordBytes(_, _)
SumRecordBytes(file, j) ==
    IF j > Len(file) THEN 0
    ELSE RecordBytes(file[j]) + SumRecordBytes(file, j + 1)

\* the serialized size of the chunk file of start f: its header row, if any,
\* and its records
FileBytes(f) ==
    header_byte_size(sargs, sbytes) + SumRecordBytes(outdir[f], Len(FileHead) + 1)

\* C24: in a split by --kb-size K no chunk file is ever larger than K*1024
\* bytes, and the remaining-bytes counter never goes below zero: no
\* subtraction from it panics or wraps around to a value above K*1024
C24_ChunkWithinKbSize ==
    sargs.flag_kb_size # None =>
        /\ \A f \in DOMAIN outdir : FileBytes(f) <= chunk_size_bytes(sargs)
        /\ spc # "panicked"
        /\ sleft <= chunk_size_bytes(sargs)

-----------------------------------------------------------------------------
(* Further properties of the aggregation *)

\* every vector of tables an ftables call has returned or merge_all has
\* produced: the results on the channel, the merged result, and what
\* sequential_ftables or parallel_ftables returned
TableVectors ==
    {chan[j] : j \in DOMAIN chan}
    \cup (IF merged = None THEN {} ELSE {Unwrap(merged)})
    \cup (IF pc \in {"tables", "done"} THEN {tables} ELSE {})

\* C25: the table of every selected column that is in the Unique-Column Set
\* is empty in every result of ftables (sequential, and of each parallel
\* worker) and in the merged result
C25_UniqueColumnTablesEmpty ==
    UNIQUE_COLUMNS_VEC # None =>
        \A tv \in TableVectors : \A k \in DOMAIN tv :
            Contains(Unwrap(UNIQUE_COLUMNS_VEC), sel[k]) => tv[k] = EmptyTable

-----------------------------------------------------------------------------
(* Specification of the normalization function: a sequential run over one   *)
(* row whose first field is any byte string of up to MaxFieldLen bytes,     *)
(* under every combination of --no-trim and --ignore-case                   *)

MaxFieldLen == 3

\* the bytes of the fields: a space, a vertical tab (whitespace to str::trim
\* only), an upper-case and a lower-case letter, and an invalid byte
FieldBytes == {" ", "VT", "A", "a", "xFF"}

InitIdem ==
    /\ SplitIdle
    /\ rows \in {<<<<f, <<"x">>>>>> : f \in SeqsUpTo(FieldBytes, MaxFieldLen)}
    /\ indexed = FALSE
    /\ cache = NoCache
    /\ args \in {[DefaultArgs EXCEPT !.flag_select = <<1>>, !.flag_no_trim = nt,
                                     !.flag_ignore_case = ic] :
                    nt \in BOOLEAN, ic \in BOOLEAN}
    /\ UNIQUE_COLUMNS_VEC = None
    /\ FREQ_ROW_COUNT = None
    /\ sel = <<>>
    /\ pc = "start"
    /\ nchunks = 0
    /\ wstate = <<>>
    /\ chan = <<>>
    /\ merged = None
    /\ nmerged = 0
    /\ tables = <<>>
    /\ col = 1
    /\ out = <<>>
    /\ wtr = <<>>

NextIdem ==
    \/ SequentialFtables
    \/ ProcessColumn
    \/ Finish

SpecIdem == InitIdem /\ [][NextIdem]_vars

\* the selected normalization function applied to a field
Normalized(field) == process_field(args.flag_ignore_case, args.flag_no_trim, field)

\* C26: once ftables has counted the row, the key it counted a non-empty
\* field under is the normalized field, and normalizing that key again
\* yields the same byte sequence, for all four flag combinations
C26_NormalizationIdempotent ==
    pc \in {"tables", "done"} =>
        \A r \in DOMAIN rows :
            LET field == rows[r][1]
            IN  /\ field # <<>> => Normalized(field) \in DOMAIN tables[1]
                /\ Normalized(Normalized(field)) = Normalized(field)

\* C26 witness: a field with whitespace on both sides of an upper-case
\* letter has been counted under the trimmed lower-case key
C26_Witness ==
    /\ pc = "tables"
    /\ rows[1][1] = <<" ", "A", " ">>
    /\ args.flag_ignore_case
    /\ ~args.flag_no_trim
    /\ DOMAIN tables[1] = {<<"a">>}

-----------------------------------------------------------------------------
(* Specification of a sequential run with --json, with and without a stats  *)
(* cache, under --no-nulls, --limit and --other-text                        *)

InitJson ==
    /\ SplitIdle
    /\ rows \in SeqsUpTo(RowSet, MaxRows)
    /\ indexed = FALSE
    /\ cache \in {NoCache, StatsCache(rows)}
    /\ args \in {[DefaultArgs EXCEPT !.flag_json = TRUE, !.flag_select = s,
                                     !.flag_no_nulls = nn, !.flag_limit = l,
                                     !.flag_other_text = ot] :
                    s \in Selections, nn \in BOOLEAN, l \in {DefaultLimit, 1},
                    ot \in {DefaultOtherText, OtherDisabled}}
    /\ UNIQUE_COLUMNS_VEC = None
    /\ FREQ_ROW_COUNT = None
    /\ sel = <<>>
    /\ pc = "start"
    /\ nchunks = 0
    /\ wstate = <<>>
    /\ chan = <<>>
    /\ merged = None
    /\ nmerged = 0
    /\ tables = <<>>
    /\ col = 1
    /\ out = <<>>
    /\ wtr = <<>>

NextJson ==
    \/ SequentialFtables
    \/ OutputJsonField
    \/ Finish

SpecJson == InitJson /\ [][NextJson]_vars

\* a run with --json has written its document
JsonWritten == pc = "done" /\ args.flag_json /\ wtr # <<>>

\* C27: the rowcount of the JSON document is the number of data rows of the
\* input, with and without a usable stats cache, for every --no-nulls,
\* --limit and --other-text
C27_JsonRowCountIsRows ==
    JsonWritten => wtr[Len(wtr)].rowcount = Len(rows)

-----------------------------------------------------------------------------
(* Totality of the post-processing *)

\* C28: post-processing never panics: no iteration of the output loop ends
\* in an out-of-bounds access or an arithmetic underflow, whatever the table
\* (the empty one included), the sort direction and the threshold
C28_PostProcessingTotal ==
    pc # "panicked"

-----------------------------------------------------------------------------
(* The channel of parallel_ftables *)

\* the workers whose closure has sent its result
SentWorkers == {i \in Workers : wstate[i] = "sent"}

\* C29: while parallel_ftables runs, the results sent so far (received or
\* still queued) are one per worker that has sent, the queue never holds
\* more than the nchunks results the channel has room for, and the channel
\* has room whenever a worker is about to send, so that no send blocks
C29_SendNeverBlocks ==
    pc = "par" =>
        /\ nmerged + Len(chan) = Cardinality(SentWorkers)
        /\ Len(chan) <= nchunks
        /\ \A i \in Workers : wstate[i] = "running" => Len(chan) < nchunks

\* C29 witness: two or more workers have all sent before the orchestrator
\* received anything, and the channel is full
C29_Witness ==
    /\ pc = "par"
    /\ nchunks >= 2
    /\ Len(chan) = nchunks
    /\ nmerged = 0

-----------------------------------------------------------------------------
(* Specification of parallel_ftables alone, with the scheduling it relies   *)
(* on: the pool runs every queued job, a running closure goes on, and the   *)
(* orchestrator blocked in recv.iter() goes on when it can                  *)

InitPar ==
    /\ SplitIdle
    /\ rows \in SeqsUpTo(RowSet, MaxRows)
    /\ indexed = TRUE
    /\ cache = NoCache
    /\ args \in {[DefaultArgs EXCEPT !.flag_jobs = j] : j \in 1..MaxJobs}
    /\ UNIQUE_COLUMNS_VEC = None
    /\ FREQ_ROW_COUNT = None
    /\ sel = <<>>
    /\ pc = "start"
    /\ nchunks = 0
    /\ wstate = <<>>
    /\ chan = <<>>
    /\ merged = None
    /\ nmerged = 0
    /\ tables = <<>>
    /\ col = 1
    /\ out = <<>>
    /\ wtr = <<>>

NextPar ==
    \/ ParallelSpawn
    \/ \E i \in Workers : WorkerStart(i)
    \/ \E i \in Workers : WorkerSend(i)
    \/ \E i \in Workers : WorkerPanic(i)
    \/ Recv
    \/ ParallelReturn

ParFairness ==
    /\ \A i \in 0..(MaxRows - 1) :
          /\ WF_vars(i \in Workers /\ WorkerStart(i))
          /\ WF_vars(i \in Workers /\ WorkerSend(i))
    /\ WF_vars(Recv)
    /\ WF_vars(ParallelReturn)

SpecPar == InitPar /\ [][NextPar]_vars /\ ParFairness

\* a worker did not finish its chunk: its closure panicked
SomeWorkerPanicked ==
    \/ pc = "aborted"
    \/ \E i \in Workers : wstate[i] = "panicked"

\* C30: unless a worker fails to finish its chunk, parallel_ftables
\* eventually returns once it has queued its jobs, and when it has returned
\* with every worker finished, the results of all nchunks workers have been
\* received and merged
C30_ReturnsAfterAllMerged ==
    /\ (pc = "par") ~> (pc # "par" \/ SomeWorkerPanicked)
    /\ [](pc = "tables" /\ nchunks > 0 /\ ~SomeWorkerPanicked
             => /\ nmerged = nchunks
                /\ chan = <<>>
                /\ AllWorkersSent)

\* C30 witness: parallel_ftables has returned after two or more workers
\* finished and all their results were merged
C30_Witness ==
    /\ pc = "tables"
    /\ nchunks >= 2
    /\ AllWorkersSent
    /\ nmerged = nchunks

====
